---- MODULE Spec2Model ----
(***************************************************************************)
(* Model of scripts/emvutils.py: the BER-TLV decoder parse_tlv and the CVM *)
(* policy evaluator built on it.                                           *)
(*                                                                         *)
(* Python values are modelled as follows.  A bytes object is a sequence of *)
(* integers 0..255, a str is a sequence of one-character strings, a dict   *)
(* is a function whose domain is its key set.  Cursors and indices keep    *)
(* Python's 0-based numbering; At(s, k) is s[k].                           *)
(***************************************************************************)
EXTENDS Integers, Sequences, FiniteSets, TLC

VARIABLES
    \* ---- one call of parse_tlv ----
    hexstr,     \* the argument
    data,       \* local: the decoded buffer
    i,          \* local: the cursor
    tag,        \* local: the tag as an integer
    tag_hex,    \* local: the tag rendered as a key
    length,     \* local: the value length
    tlvs,       \* local: the result dict
    pc,         \* position of the call
    exc,        \* the exception the call ended with, "" when none
    fields,     \* history: the fields inserted so far, in order
    mark,       \* history: where the current field's tag and length began
    src,        \* history: the map the buffer was encoded from (round trip)
    \* ---- one call of will_card_always_request_pin or of
    \* ---- explain_card_pin_requirement (positions x_...) ----
    card_tags,  \* the argument
    aip,        \* local
    cvm_list,   \* local
    cv_supported,           \* local
    offline_pin_priority,   \* local
    methods,    \* local of is_offline_pin_highest_priority
    explanation,            \* local of explain_card_pin_requirement: the lines
    ret,        \* the returned value
    epc,        \* position of the call
    eexc,       \* the exception the call ended with, "" when none
    \* ---- a second call of parse_tlv, running beside the first ----
    other       \* its argument, locals and position, as a record

dvars == <<hexstr, data, i, tag, tag_hex, length, tlvs, pc, exc, fields, mark, src>>
evars == <<card_tags, aip, cvm_list, cv_supported, offline_pin_priority, methods,
           explanation, ret, epc, eexc>>
vars == <<dvars, evars, other>>

---------------------------------------------------------------------------
(* Bounds of the model *)

\* longest buffer drawn over Bytes
MaxLen == 4
\* most entries of a round-trip map
MaxEntries == 2
\* Python integers are unbounded, the model's have 32 bits.  An integer of
\* IntCap or more is represented by some integer >= IntCap: every buffer is
\* shorter than IntCap, so each comparison with len(data) and each slice is
\* decided as the code decides it.
IntCap == 4194304
\* longest AIP handed to the evaluator
MaxAipLen == 2
\* longest CVM list handed to the evaluator
MaxCvmLen == 3

---------------------------------------------------------------------------
(* Python built-ins *)

Min(a, b) == IF a < b THEN a ELSE b

\* s[k], 0-based (IndexError is the caller's guard)
At(s, k) == s[k + 1]

\* s[a:b] for 0 <= a <= b: both ends are clamped to len(s), never an error
Slice(s, a, b) == SubSeq(s, Min(a, Len(s)) + 1, Min(b, Len(s)))

RECURSIVE BitAnd(_, _)
\* a & b on non-negative integers
BitAnd(a, b) ==
    IF a = 0 \/ b = 0 THEN 0
    ELSE (a % 2) * (b % 2) + 2 * BitAnd(a \div 2, b \div 2)

RECURSIVE BitOr(_, _)
\* a | b on non-negative integers
BitOr(a, b) ==
    IF a = 0 THEN b
    ELSE IF b = 0 THEN a
    ELSE (IF a % 2 = 1 \/ b % 2 = 1 THEN 1 ELSE 0) + 2 * BitOr(a \div 2, b \div 2)

\* a << 8
Shl8(a) == a * 256

RECURSIVE FromBytesBig(_)
\* int.from_bytes(b, 'big'); 0 for the empty bytes
FromBytesBig(b) ==
    IF Len(b) = 0 THEN 0
    ELSE LET hi == FromBytesBig(SubSeq(b, 1, Len(b) - 1)) IN
         IF hi >= IntCap THEN hi ELSE 256 * hi + b[Len(b)]

UpperDigits == <<"0","1","2","3","4","5","6","7","8","9","A","B","C","D","E","F">>
LowerDigits == <<"0","1","2","3","4","5","6","7","8","9","a","b","c","d","e","f">>

IsHexChar(c) == \E k \in 1..16 : UpperDigits[k] = c \/ LowerDigits[k] = c
HexVal(c) == (CHOOSE k \in 1..16 : UpperDigits[k] = c \/ LowerDigits[k] = c) - 1

NotSpace(c) == c # " "

\* s.replace(" ", "")
RemoveSpaces(s) == SelectSeq(s, NotSpace)

\* whether bytes.fromhex(s) returns (s holds no whitespace): pairs of hex digits
FromHexOk(s) == Len(s) % 2 = 0 /\ \A k \in 1..Len(s) : IsHexChar(s[k])

\* bytes.fromhex(s) when it returns
FromHex(s) == [k \in 1..(Len(s) \div 2) |-> 16 * HexVal(s[2*k - 1]) + HexVal(s[2*k])]

RECURSIVE HexDigitsOf(_)
\* the uppercase hex digits of n, no padding
HexDigitsOf(n) ==
    IF n < 16 THEN <<UpperDigits[n + 1]>>
    ELSE HexDigitsOf(n \div 16) \o <<UpperDigits[(n % 16) + 1]>>

RECURSIVE PadZero(_, _)
PadZero(s, w) == IF Len(s) >= w THEN s ELSE PadZero(<<"0">> \o s, w)

\* f"{n:0wX}"
FormatX(n, w) == PadZero(HexDigitsOf(n), w)

\* b.hex(): two lowercase digits per byte
BytesHex(b) ==
    [k \in 1..(2 * Len(b)) |->
        IF k % 2 = 1 THEN LowerDigits[(b[(k + 1) \div 2] \div 16) + 1]
                     ELSE LowerDigits[(b[k \div 2] % 16) + 1]]

UpperChar(c) ==
    IF \E k \in 11..16 : LowerDigits[k] = c
    THEN UpperDigits[CHOOSE k \in 11..16 : LowerDigits[k] = c]
    ELSE c

\* s.upper()
Upper(s) == [k \in 1..Len(s) |-> UpperChar(s[k])]

---------------------------------------------------------------------------
(* Python values of more than one type *)

\* A value that is None, a bytes or a str.  b holds the bytes, s the
\* characters; of is history: the bytes a str was written from.
NoneVal == [kind |-> "none", b |-> <<>>, s |-> <<>>, of |-> <<>>]
BytesVal(x) == [kind |-> "bytes", b |-> x, s |-> <<>>, of |-> x]
StrVal(chars, origin) == [kind |-> "str", b |-> <<>>, s |-> chars, of |-> origin]

\* not v
Falsy(v) ==
    \/ v.kind = "none"
    \/ v.kind = "bytes" /\ Len(v.b) = 0
    \/ v.kind = "str" /\ Len(v.s) = 0

Max0(n) == IF n > 0 THEN n ELSE 0

\* A value that is a bool or a list of integers.
BoolRet(x) == [kind |-> "bool", bool |-> x, list |-> <<>>]
ListRet(x) == [kind |-> "list", bool |-> FALSE, list |-> x]

\* the truth value of such a value
Truthy(r) == IF r.kind = "bool" THEN r.bool ELSE Len(r.list) > 0

---------------------------------------------------------------------------
(* The evaluator's functions *)

\* the two hex digits of a byte read low nibble first
HexstrToBytes_swapped(h) ==
    LET s == RemoveSpaces(h) IN
    [k \in 1..(Len(s) \div 2) |-> 16 * HexVal(s[2*k]) + HexVal(s[2*k - 1])]

\* lines 3-5: hexstr_to_bytes, when it returns
HexstrToBytes(h) == FromHex(RemoveSpaces(h))

\* a check of the characters alone, an odd digit being dropped in silence
HexstrRaises_nonhexonly(h) ==
    \E k \in 1..Len(RemoveSpaces(h)) : ~IsHexChar(RemoveSpaces(h)[k])

\* lines 3-5: hexstr_to_bytes raises ValueError
HexstrRaises(h) == ~FromHexOk(RemoveSpaces(h))

\* the mask 0x04 of the example comments in place of 0x10
IsCVSupported_mask04(a) ==
    IF Falsy(a) \/ Len(a.b) < 1 THEN FALSE ELSE BitAnd(At(a.b, 0), 4) # 0

\* the mask 0x08 in place of 0x10
IsCVSupported_mask08(a) ==
    IF Falsy(a) \/ Len(a.b) < 1 THEN FALSE ELSE BitAnd(At(a.b, 0), 8) # 0

\* lines 7-14: is_cardholder_verification_supported
IsCVSupported(a) ==
    IF Falsy(a) \/ Len(a.b) < 1 THEN FALSE ELSE BitAnd(At(a.b, 0), 16) # 0

\* the entries read without the test for a list shorter than 2 bytes
GetCvmMethods_noguard(c) ==
    IF Falsy(c) THEN <<>>
    ELSE [k \in 1..((Len(c.b) + 1) \div 2) |-> At(c.b, 2 * (k - 1))]

\* the entries read after an 8-byte amount header
GetCvmMethods_skipheader(c) ==
    IF Falsy(c) \/ Len(c.b) < 2 THEN <<>>
    ELSE [k \in 1..((Max0(Len(c.b) - 8) + 1) \div 2) |-> At(c.b, 8 + 2 * (k - 1))]

\* lines 16-23: get_cvm_methods; range(0, len, 2) has (len + 1) div 2 indices
GetCvmMethods(c) ==
    IF Falsy(c) \/ Len(c.b) < 2 THEN <<>>
    ELSE [k \in 1..((Len(c.b) + 1) \div 2) |-> At(c.b, 2 * (k - 1))]

\* code 0x01 looked for anywhere in the methods
IsOfflinePinHighestPriority_any(c) ==
    LET m == GetCvmMethods(c) IN
    IF Len(m) = 0 THEN ListRet(m) ELSE BoolRet(\E k \in 1..Len(m) : m[k] = 1)

\* lines 25-30: is_offline_pin_highest_priority; `methods and ...` is methods
\* itself when methods is empty
IsOfflinePinHighestPriority(c) ==
    LET m == GetCvmMethods(c) IN
    IF Len(m) = 0 THEN ListRet(m) ELSE BoolRet(At(m, 0) = 1)

\* line 49: cv_supported and offline_pin_priority
PyAnd(x, y) == IF x THEN y ELSE BoolRet(x)

\* lines 41-44: the value after `if isinstance(v, str): v = hexstr_to_bytes(v)`
Coerce(v) == IF v.kind = "str" THEN BytesVal(HexstrToBytes(v.s)) ELSE v

\* lines 41-44: the conversion raises
CoerceRaises(v) == v.kind = "str" /\ HexstrRaises(v.s)

\* the words the explanation is built from
Missing == <<"M","i","s","s","i","n","g">>
Yes == <<"Y","e","s">>
No == <<"N","o">>
Will == <<"w","i","l","l">>
WillNot == <<"w","i","l","l"," ","N","O","T">>

\* one line of the explanation: an f-string of a fixed head, a computed
\* text and a fixed tail
Line(head, text, tail) == [head |-> head, text |-> text, tail |-> tail]

\* lines 63-64: v.hex().upper() if v else 'Missing'
HexOrMissing(v) == IF Falsy(v) THEN Missing ELSE Upper(BytesHex(v.b))

\* lines 65-66: 'Yes' if x else 'No'
YesNo(x) == IF x THEN Yes ELSE No

\* the result word chosen by `or`
ResultWord_or(cv, op) == IF cv \/ Truthy(op) THEN Will ELSE WillNot

\* line 67: 'will' if cv_supported and offline_pin_priority else 'will NOT'
ResultWord(cv, op) == IF Truthy(PyAnd(cv, op)) THEN Will ELSE WillNot

\* lines 62-68: the five lines; "\n".join of them is the returned string
Render(a, c, cv, op) ==
    << Line("AIP (tag 82): ", HexOrMissing(a), ""),
       Line("CVM List (tag 8E): ", HexOrMissing(c), ""),
       Line("Cardholder verification supported in AIP: ", YesNo(cv), ""),
       Line("Offline PIN for CA is highest priority in CVM list: ", YesNo(Truthy(op)), ""),
       Line("Result: Card ", ResultWord(cv, op), " always request PIN for transaction.") >>

---------------------------------------------------------------------------
(* parse_tlv *)

\* a truthiness test of the masked bits in place of the comparison with 0x1F
IsMultiByteTag_anybit(b) == BitAnd(b, 31) # 0

\* line 82: the first tag byte announces a second one
IsMultiByteTag(b) == BitAnd(b, 31) = 31

\* line 83
CombineTag(b, second) == BitOr(Shl8(b), second)

LowerChar(c) ==
    IF \E k \in 11..16 : UpperDigits[k] = c
    THEN LowerDigits[CHOOSE k \in 11..16 : UpperDigits[k] = c]
    ELSE c

\* the key formatted with x in place of X
TagHex_lower(t) ==
    LET u == IF t <= 255 THEN FormatX(t, 2) ELSE FormatX(t, 4) IN
    [k \in 1..Len(u) |-> LowerChar(u[k])]

\* line 85
TagHex(t) == IF t <= 255 THEN FormatX(t, 2) ELSE FormatX(t, 4)

\* line 89
IsLongForm(l) == BitAnd(l, 128) # 0

\* line 90
NumLengthBytes(l) == BitAnd(l, 127)

\* the length bytes read least significant first
LongLength_little(d, pos, n) ==
    LET b == Slice(d, pos, pos + n) IN
    FromBytesBig([k \in 1..Len(b) |-> b[Len(b) + 1 - k]])

\* line 91
LongLength(d, pos, n) == FromBytesBig(Slice(d, pos, pos + n))

\* the value sliced one byte late
ValueAt_late(d, pos, len) == Slice(d, pos + 1, pos + 1 + len)

\* line 94
ValueAt(d, pos, len) == Slice(d, pos, pos + len)

\* an insertion that keeps the entry a key already has
DictSet_keepfirst(d, k, v) ==
    [x \in (DOMAIN d) \cup {k} |-> IF x \in DOMAIN d THEN d[x] ELSE v]

\* line 96: tlvs[tag_hex] = value
DictSet(d, k, v) == [x \in (DOMAIN d) \cup {k} |-> IF x = k THEN v ELSE d[x]]

EmptyDict == [x \in {} |-> <<>>]

---------------------------------------------------------------------------
(* Inputs of parse_tlv *)

BoundedSeq(S, n) == UNION {[1..k -> S] : k \in 0..n}

\* bytes the buffers are drawn over: values, short lengths, the long-form
\* markers 0x80 0x81 0x82, the one-byte tag 82 and the two-byte tag lead 9F
Bytes == {0, 1, 2, 128, 129, 130, 159}

\* 9F02 06 000000001000; 82 02 3000; 82 05 + 2 bytes; 82 twice; 70 03 82 01 38
ExampleBuffers ==
    { <<159, 2, 6, 0, 0, 0, 0, 16, 0>>,
      <<130, 2, 48, 0>>,
      <<130, 5, 0, 1>>,
      <<130, 1, 0, 130, 1, 1>>,
      <<112, 3, 130, 1, 56>> }

Buffers == BoundedSeq(Bytes, MaxLen) \cup ExampleBuffers

\* hex strings no buffer rendering gives: spaces, lower case, malformed
ExtraHexStrings ==
    { <<"8","2"," ","0","2"," ","3","0"," ","0","0">>,
      <<"9","f","0","2","0","1","f","f">>,
      <<"1","2","G">>,
      <<"1","2","3">> }

DecodeInputs == {Upper(BytesHex(b)) : b \in Buffers} \cup ExtraHexStrings

NoSource == [given |-> FALSE, map |-> EmptyDict]

\* a call of parse_tlv as a record: the argument and the locals before line
\* 75 has run
CallEntry(h) ==
    [hexstr |-> h, data |-> <<>>, i |-> 0, tag |-> 0, tag_hex |-> <<>>, length |-> 0,
     tlvs |-> EmptyDict, pc |-> "start", exc |-> ""]

\* no second call is under way
IdleCall == [CallEntry(<<>>) EXCEPT !.pc = "idle"]

\* the locals of will_card_always_request_pin before line 37 has run
EvalEntry(t) ==
    /\ card_tags = t
    /\ aip = NoneVal
    /\ cvm_list = NoneVal
    /\ cv_supported = FALSE
    /\ offline_pin_priority = BoolRet(FALSE)
    /\ methods = <<>>
    /\ explanation = <<>>
    /\ ret = BoolRet(FALSE)
    /\ eexc = ""

\* no call of the evaluator is under way
EvalIdle ==
    /\ EvalEntry([t82 |-> NoneVal, t8E |-> NoneVal])
    /\ epc = "idle"

\* the locals of parse_tlv before line 75 has run
DecodeEntry(h) ==
    /\ hexstr = h
    /\ data = <<>>
    /\ i = 0
    /\ tag = 0
    /\ tag_hex = <<>>
    /\ length = 0
    /\ tlvs = EmptyDict
    /\ pc = "start"
    /\ exc = ""
    /\ fields = <<>>
    /\ mark = [tagAt |-> 0, lenAt |-> 0]

Init ==
    /\ \E h \in DecodeInputs : DecodeEntry(h)
    /\ src = NoSource
    /\ EvalIdle
    /\ other = IdleCall

---------------------------------------------------------------------------
(* The steps of parse_tlv *)

\* line 75: data = bytes.fromhex(hexstr.replace(" ", "")); lines 76-77
Convert ==
    /\ pc = "start"
    /\ LET s == RemoveSpaces(hexstr) IN
         IF FromHexOk(s)
         THEN /\ data' = FromHex(s)
              /\ tlvs' = EmptyDict
              /\ i' = 0
              /\ pc' = "loop"
              /\ exc' = exc
         ELSE /\ pc' = "raised"
              /\ exc' = "ValueError"
              /\ UNCHANGED <<data, tlvs, i>>
    /\ UNCHANGED <<hexstr, tag, tag_hex, length, fields, mark, src>>
    /\ UNCHANGED <<evars, other>>

\* lines 78-85: the loop test passes, the tag is read
ReadTag ==
    /\ pc = "loop"
    /\ i < Len(data)
    /\ LET b == At(data, i) IN
         IF ~IsMultiByteTag(b)
         THEN /\ tag' = b
              /\ i' = i + 1
              /\ tag_hex' = TagHex(b)
              /\ pc' = "len"
              /\ exc' = exc
         ELSE IF i + 1 < Len(data)
         THEN /\ tag' = CombineTag(b, At(data, i + 1))
              /\ i' = i + 2
              /\ tag_hex' = TagHex(CombineTag(b, At(data, i + 1)))
              /\ pc' = "len"
              /\ exc' = exc
         ELSE \* data[i] at line 83 is out of range
              /\ tag' = b
              /\ i' = i + 1
              /\ tag_hex' = tag_hex
              /\ pc' = "raised"
              /\ exc' = "IndexError"
    /\ mark' = [tagAt |-> i, lenAt |-> i']
    /\ UNCHANGED <<hexstr, data, length, tlvs, fields, src>>
    /\ UNCHANGED <<evars, other>>

\* the length read without the cursor moving past its first byte
ReadLength_noadvance ==
    /\ pc = "len"
    /\ IF i >= Len(data)
       THEN /\ pc' = "raised"
            /\ exc' = "IndexError"
            /\ UNCHANGED <<length, i>>
       ELSE LET l == At(data, i) IN
            /\ IF IsLongForm(l)
               THEN /\ length' = LongLength(data, i + 1, NumLengthBytes(l))
                    /\ i' = i + NumLengthBytes(l)
               ELSE /\ length' = l
                    /\ i' = i
            /\ pc' = "val"
            /\ exc' = exc
    /\ UNCHANGED <<hexstr, data, tag, tag_hex, tlvs, fields, mark, src>>
    /\ UNCHANGED <<evars, other>>

\* lines 87-92: the length is read
ReadLength ==
    /\ pc = "len"
    /\ IF i >= Len(data)
       THEN \* data[i] at line 87 is out of range
            /\ pc' = "raised"
            /\ exc' = "IndexError"
            /\ UNCHANGED <<length, i>>
       ELSE LET l == At(data, i) IN
            /\ IF IsLongForm(l)
               THEN /\ length' = LongLength(data, i + 1, NumLengthBytes(l))
                    /\ i' = i + 1 + NumLengthBytes(l)
               ELSE /\ length' = l
                    /\ i' = i + 1
            /\ pc' = "val"
            /\ exc' = exc
    /\ UNCHANGED <<hexstr, data, tag, tag_hex, tlvs, fields, mark, src>>
    /\ UNCHANGED <<evars, other>>

\* the value of a constructed tag (bit 0x20 of its first byte) stored and
\* then entered: the cursor stays at the start of the value
ReadValue_descend ==
    /\ pc = "val"
    /\ tlvs' = DictSet(tlvs, tag_hex, ValueAt(data, i, length))
    /\ i' = IF BitAnd(IF tag < 256 THEN tag ELSE tag \div 256, 32) # 0 THEN i ELSE i + length
    /\ fields' = Append(fields, [key |-> tag_hex, value |-> ValueAt(data, i, length),
                                 tagAt |-> mark.tagAt, lenAt |-> mark.lenAt,
                                 at |-> i, len |-> length])
    /\ pc' = "loop"
    /\ UNCHANGED <<hexstr, data, tag, tag_hex, length, exc, mark, src>>
    /\ UNCHANGED <<evars, other>>

\* lines 94-96: the value is sliced and stored
ReadValue ==
    /\ pc = "val"
    /\ tlvs' = DictSet(tlvs, tag_hex, ValueAt(data, i, length))
    /\ i' = i + length
    /\ fields' = Append(fields, [key |-> tag_hex, value |-> ValueAt(data, i, length),
                                 tagAt |-> mark.tagAt, lenAt |-> mark.lenAt,
                                 at |-> i, len |-> length])
    /\ pc' = "loop"
    /\ UNCHANGED <<hexstr, data, tag, tag_hex, length, exc, mark, src>>
    /\ UNCHANGED <<evars, other>>

\* lines 78, 97: the loop test fails, tlvs is returned
Return ==
    /\ pc = "loop"
    /\ i >= Len(data)
    /\ pc' = "done"
    /\ UNCHANGED <<hexstr, data, i, tag, tag_hex, length, tlvs, exc, fields, mark, src>>
    /\ UNCHANGED <<evars, other>>

Next == Convert \/ ReadTag \/ ReadLength \/ ReadValue \/ Return

Spec == Init /\ [][Next]_vars

\* lines 75-97: one step of a call of parse_tlv held as a record r, the same
\* steps as Convert, ReadTag, ReadLength, ReadValue and Return
DecodeStep(r) ==
    IF r.pc = "start"
    THEN LET s == RemoveSpaces(r.hexstr) IN
         IF FromHexOk(s)
         THEN [r EXCEPT !.data = FromHex(s), !.tlvs = EmptyDict, !.i = 0, !.pc = "loop"]
         ELSE [r EXCEPT !.pc = "raised", !.exc = "ValueError"]
    ELSE IF r.pc = "loop" /\ r.i >= Len(r.data)
    THEN [r EXCEPT !.pc = "done"]
    ELSE IF r.pc = "loop"
    THEN LET b == At(r.data, r.i) IN
         IF ~IsMultiByteTag(b)
         THEN [r EXCEPT !.tag = b, !.i = r.i + 1, !.tag_hex = TagHex(b), !.pc = "len"]
         ELSE IF r.i + 1 < Len(r.data)
         THEN [r EXCEPT !.tag = CombineTag(b, At(r.data, r.i + 1)), !.i = r.i + 2,
                        !.tag_hex = TagHex(CombineTag(b, At(r.data, r.i + 1))),
                        !.pc = "len"]
         ELSE [r EXCEPT !.tag = b, !.i = r.i + 1, !.pc = "raised", !.exc = "IndexError"]
    ELSE IF r.pc = "len"
    THEN IF r.i >= Len(r.data)
         THEN [r EXCEPT !.pc = "raised", !.exc = "IndexError"]
         ELSE LET l == At(r.data, r.i) IN
              IF IsLongForm(l)
              THEN [r EXCEPT !.length = LongLength(r.data, r.i + 1, NumLengthBytes(l)),
                             !.i = r.i + 1 + NumLengthBytes(l), !.pc = "val"]
              ELSE [r EXCEPT !.length = l, !.i = r.i + 1, !.pc = "val"]
    ELSE IF r.pc = "val"
    THEN [r EXCEPT !.tlvs = DictSet(r.tlvs, r.tag_hex, ValueAt(r.data, r.i, r.length)),
                   !.i = r.i + r.length, !.pc = "loop"]
    ELSE r

\* the call r run to its end with nothing beside it
RECURSIVE RunAlone(_)
RunAlone(r) == IF r.pc \in {"done", "raised", "idle"} THEN r ELSE RunAlone(DecodeStep(r))

\* what a caller sees of a call that ended: the map returned or the
\* exception raised
Outcome(r) ==
    [pc |-> r.pc, exc |-> r.exc, tlvs |-> IF r.pc = "done" THEN r.tlvs ELSE EmptyDict]

---------------------------------------------------------------------------
(* The round trip: a TlvMap encoded entry by entry, then decoded *)

\* keys of the encoded maps: 82 and 9F02 are tags the decoder can produce;
\* 1F is a 2-digit key whose byte announces a second tag byte, 8202 a
\* 4-digit key whose first byte does not
RTKeys == { <<"8","2">>, <<"9","F","0","2">>, <<"1","F">>, <<"8","2","0","2">> }

\* values: empty, two bytes that read as a tag and a length, and 130 bytes
\* (a length only the long forms can carry)
RTValues == { <<>>, <<130, 0>>, [k \in 1..130 |-> 130] }

\* the length forms an encoder may pick: short, long with 1 or 2 bytes
RTForms == {"short", "long1", "long2"}

\* the forms that can carry the length n
FormsFor(n) ==
    {f \in RTForms : (f = "short" => n <= 127) /\ (f = "long1" => n <= 255)}

TlvMaps ==
    UNION { [K -> RTValues] : K \in {X \in SUBSET RTKeys : Cardinality(X) <= MaxEntries} }

\* key hex -> tag bytes
EncodeTag(key) == FromHex(key)

\* length -> short- or long-form length bytes
EncodeLength(n, form) ==
    CASE form = "short" -> <<n>>
      [] form = "long1" -> <<129, n>>
      [] form = "long2" -> <<130, n \div 256, n % 256>>

EncodeEntry(key, value, form) ==
    EncodeTag(key) \o EncodeLength(Len(value), form) \o value

RECURSIVE EncodeMap(_, _, _)
\* the entries of m in the order of the key sequence, entry k in form[k]
EncodeMap(m, order, form) ==
    IF Len(order) = 0 THEN <<>>
    ELSE EncodeEntry(Head(order), m[Head(order)], form[Head(order)])
         \o EncodeMap(m, Tail(order), form)

\* the orders the entries of a map can be concatenated in
Orders(K) ==
    {o \in [1..Cardinality(K) -> K] : \A a, b \in 1..Cardinality(K) : a # b => o[a] # o[b]}

InitRoundTrip ==
    /\ \E m \in TlvMaps :
         \E order \in Orders(DOMAIN m), form \in [DOMAIN m -> RTForms] :
            /\ \A k \in DOMAIN m : form[k] \in FormsFor(Len(m[k]))
            /\ DecodeEntry(Upper(BytesHex(EncodeMap(m, order, form))))
            /\ src = [given |-> TRUE, map |-> m]
    /\ EvalIdle
    /\ other = IdleCall

SpecRoundTrip == InitRoundTrip /\ [][Next]_vars

\* a key the decoder produces: two digits of a byte whose low five bits are
\* not all set, or four digits whose first byte has them all set
CanonicalKey(key) ==
    LET b == FromHex(key) IN
    \/ Len(b) = 1 /\ b[1] % 32 # 31
    \/ Len(b) = 2 /\ b[1] % 32 = 31

\* C2 as stated: every map with 2-digit or 4-digit keys decodes back to itself
C2_RoundTripAnyKey ==
    (src.given /\ pc \in {"done", "raised"}) => (pc = "done" /\ tlvs = src.map)

\* C2 amended: a map whose keys are all canonical decodes back to itself
C2_RoundTrip ==
    (src.given /\ pc \in {"done", "raised"} /\ \A k \in DOMAIN src.map : CanonicalKey(k))
        => (pc = "done" /\ tlvs = src.map)

\* a map of a one-byte and a two-byte tag, one value with a long-form length
\* and bytes that read as a tag, came back
C2_Witness ==
    /\ src.given
    /\ pc = "done"
    /\ DOMAIN src.map = { <<"8","2">>, <<"9","F","0","2">> }
    /\ src.map[<<"8","2">>] = <<130, 0>>
    /\ At(data, 1) >= 129
    /\ tlvs = src.map

---------------------------------------------------------------------------
(* Claims about parse_tlv *)

Max(a, b) == IF a > b THEN a ELSE b

\* two uppercase hex digits of a byte
Hex2(b) == <<UpperDigits[(b \div 16) + 1], UpperDigits[(b % 16) + 1]>>

RECURSIVE BigEndian(_, _, _, _)
\* the unsigned big-endian integer of d[pos .. pos+n-1] (0-based), most
\* significant byte first
BigEndian(d, pos, n, acc) ==
    IF n = 0 THEN acc ELSE BigEndian(d, pos + 1, n - 1, acc * 256 + At(d, pos))

\* the bytes of d a value of declared length len at cursor pos can hold
Available(d, pos, len) == Max(0, Min(len, Len(d) - pos))

\* C1: a field whose declared value length exceeds the bytes remaining after
\* its length field makes decode fail: no map is returned that holds a value
\* shorter than its declared length.
C1_NoShortValue ==
    pc = "done" =>
        \A k \in 1..Len(fields) :
            fields[k].at <= Len(data) => Len(fields[k].value) = fields[k].len

\* the case of C1: a map was returned with a value cut short by the buffer end
C1_ShortValueReturned ==
    /\ pc = "done"
    /\ data = <<130, 5, 0, 1>>
    /\ tlvs = (<<"8", "2">> :> <<0, 1>>)

\* C3: a returned map has exactly the tags of the parsed fields as keys, and
\* under each the value of the last field carrying it, which is the bytes of
\* the buffer at that field's value position.
C3_LastWriteWins ==
    pc = "done" =>
        /\ DOMAIN tlvs = {fields[k].key : k \in 1..Len(fields)}
        /\ \A k \in 1..Len(fields) :
              /\ fields[k].value =
                    [j \in 1..Available(data, fields[k].at, fields[k].len)
                        |-> At(data, fields[k].at + j - 1)]
              /\ (\A m \in (k + 1)..Len(fields) : fields[m].key # fields[k].key)
                    => tlvs[fields[k].key] = fields[k].value

\* a tag occurred twice with different values and the map was returned
C3_Witness ==
    /\ pc = "done"
    /\ \E k, m \in 1..Len(fields) :
          /\ k < m
          /\ fields[k].key = fields[m].key
          /\ fields[k].value # fields[m].value
          /\ tlvs[fields[m].key] = fields[m].value

\* C4: once a tag is read, two tag bytes were consumed and the key is the
\* four hex digits of both when the low five bits of the first are all set,
\* whatever the second byte; else one byte was consumed and the key is its
\* two hex digits.  9F 02 06 00 00 00 00 10 00 decodes to the one key 9F02.
C4_TagBytes ==
    /\ pc = "len" =>
          LET b == At(data, mark.tagAt) IN
          IF b % 32 = 31
          THEN /\ i = mark.tagAt + 2
               /\ tag_hex = Hex2(b) \o Hex2(At(data, mark.tagAt + 1))
          ELSE /\ i = mark.tagAt + 1
               /\ tag_hex = Hex2(b)
    /\ (pc = "done" /\ data = <<159, 2, 6, 0, 0, 0, 0, 16, 0>>) =>
          tlvs = (<<"9", "F", "0", "2">> :> <<0, 0, 0, 0, 16, 0>>)

\* a two-byte tag whose second byte has its high bit set was read
C4_Witness ==
    /\ pc = "len"
    /\ At(data, mark.tagAt) = 159
    /\ At(data, mark.tagAt + 1) >= 128
    /\ tag_hex = <<"9", "F">> \o Hex2(At(data, mark.tagAt + 1))

\* C5: once a length is read, a first length byte below 0x80 is the length
\* and one byte was consumed; otherwise its low seven bits n count the
\* length bytes that follow, 1 + n bytes were consumed, and the length is the
\* big-endian integer of those n bytes (0 for n = 0).
C5_Length ==
    pc = "val" =>
        LET l == At(data, mark.lenAt) IN
        IF l < 128
        THEN length = l /\ i = mark.lenAt + 1
        ELSE /\ i = mark.lenAt + 1 + (l - 128)
             /\ (mark.lenAt + 1 + (l - 128) <= Len(data)) =>
                    length = BigEndian(data, mark.lenAt + 1, l - 128, 0)

\* a two-byte long-form length was read whose bytes differ
C5_Witness ==
    /\ pc = "val"
    /\ At(data, mark.lenAt) = 130
    /\ mark.lenAt + 3 <= Len(data)
    /\ At(data, mark.lenAt + 1) # At(data, mark.lenAt + 2)
    /\ length = 256 * At(data, mark.lenAt + 1) + At(data, mark.lenAt + 2)

\* C6: a buffer that ends right after a tag byte, or right after a first tag
\* byte announcing a second, fails with the decode error TruncatedInput and
\* returns no map.
C6_TruncatedInput ==
    (pc = "raised" /\ mark.lenAt >= Len(data) /\ Len(data) > 0) =>
        exc = "TruncatedInput"

\* the case of C6: earlier fields parsed, then the buffer ended after a tag
C6_EndsAfterTag ==
    /\ pc = "raised"
    /\ Len(fields) > 0
    /\ mark.lenAt = Len(data)
    /\ exc = "IndexError"

\* C7: a long-form length byte that announces more length bytes than remain
\* makes decode fail: no map is returned whose length was computed from the
\* fewer bytes present.
C7_NoShortLength ==
    pc = "done" =>
        \A k \in 1..Len(fields) :
            LET l == At(data, fields[k].lenAt) IN
            l >= 128 => fields[k].lenAt + 1 + (l - 128) <= Len(data)

\* the case of C7: 82 82 01 returned a map
C7_ShortLengthReturned ==
    /\ pc = "done"
    /\ data = <<130, 130, 1>>
    /\ tlvs = (<<"8", "2">> :> <<>>)

\* C17: the empty hex string decodes to the empty map with no error, and
\* 82023000 to the one-entry map of 82 to 30 00.
C17_Examples ==
    /\ hexstr = <<>> =>
          /\ pc # "raised"
          /\ pc = "done" => tlvs = EmptyDict
          /\ Len(fields) = 0
    /\ hexstr = <<"8","2","0","2","3","0","0","0">> =>
          /\ pc # "raised"
          /\ pc = "done" => (DOMAIN tlvs = {<<"8","2">>} /\ tlvs[<<"8","2">>] = <<48, 0>>)

\* 82023000 was decoded and its map returned
C17_Witness ==
    /\ pc = "done"
    /\ hexstr = <<"8","2","0","2","3","0","0","0">>
    /\ Len(fields) = 1

\* C19: when a map is returned the cursor equals the buffer length: the
\* fields, each from its tag to the end of its declared value, follow one
\* another from offset 0 and end at the buffer end.
C19_CursorExact ==
    pc = "done" =>
        /\ i = Len(data)
        /\ \A k \in 1..Len(fields) :
              /\ fields[k].tagAt = (IF k = 1 THEN 0 ELSE fields[k - 1].at + fields[k - 1].len)
              /\ fields[k].at + fields[k].len <= Len(data)

\* the case of C19: 82 05 00 01 returned a map with the cursor at 7
C19_Overshoot ==
    /\ pc = "done"
    /\ data = <<130, 5, 0, 1>>
    /\ i = 7

\* the iterations of the loop begun so far
Started ==
    Len(fields) + (IF pc \in {"len", "val"} \/ (pc = "raised" /\ exc = "IndexError")
                   THEN 1 ELSE 0)

Terminated == pc \in {"done", "raised"}

\* a call that is not over always takes its next step
SpecLive == Spec /\ WF_vars(Next)

\* C20: decode ends on every buffer, with a map or with an error; each
\* completed iteration moved the cursor by at least 2, and a buffer of n
\* bytes sees at most ceil(n/2) iterations.
C20_Terminates ==
    /\ [](\A k \in 1..Len(fields) :
            fields[k].at + fields[k].len >= fields[k].tagAt + 2)
    /\ [](Started <= (Len(data) + 1) \div 2)
    /\ <>Terminated

\* a buffer of 4 bytes was decoded in 2 iterations
C20_Witness ==
    /\ pc = "done"
    /\ Len(data) = 4
    /\ Len(fields) = 2

\* the last field whose key is k
LastOf(k) ==
    CHOOSE n \in 1..Len(fields) :
        /\ fields[n].key = k
        /\ \A m \in 1..Len(fields) : fields[m].key = k => m <= n

\* C21: decode is flat.  Each insertion into the map is for a field that
\* begins where the field before it ended, the first at offset 0, so no tag
\* is ever read inside the declared value of another field; the keys of the
\* map are the tags of those fields and nothing else, and each holds the
\* raw value bytes of the last such field.  70 03 82 01 38 gives the one
\* key 70 with the value 82 01 38, and no key 82.
C21_Flat ==
    /\ \A n \in 1..Len(fields) :
          /\ fields[n].tagAt = (IF n = 1 THEN 0 ELSE fields[n - 1].at + fields[n - 1].len)
          /\ \A m \in 1..Len(fields) :
                ~(fields[m].at <= fields[n].tagAt
                     /\ fields[n].tagAt < fields[m].at + fields[m].len)
          /\ fields[n].value = Slice(data, fields[n].at, fields[n].at + fields[n].len)
    /\ pc \in {"loop", "len", "val", "done"} =>
          /\ DOMAIN tlvs = {fields[n].key : n \in 1..Len(fields)}
          /\ \A k \in DOMAIN tlvs : tlvs[k] = fields[LastOf(k)].value
    /\ (pc = "done" /\ data = <<112, 3, 130, 1, 56>>) =>
          /\ Len(fields) = 1
          /\ DOMAIN tlvs = {<<"7", "0">>}
          /\ tlvs[<<"7", "0">>] = <<130, 1, 56>>

\* the template 70 holding an 82 was decoded: one insertion, the key 70
C21_Witness ==
    /\ pc = "done"
    /\ data = <<112, 3, 130, 1, 56>>
    /\ <<"7", "0">> \in DOMAIN tlvs
    /\ <<"8", "2">> \notin DOMAIN tlvs
    /\ fields[1].value = <<130, 1, 56>>

---------------------------------------------------------------------------
(* Inputs and steps of will_card_always_request_pin *)

AipBytes == {0, 40, 48, 56}
CvmBytes == {0, 1, 2}

\* b as hex with a space between the bytes, upper case
Spaced(b) ==
    [k \in 1..(3 * Len(b) - 1) |->
        IF k % 3 = 0 THEN " "
        ELSE IF k % 3 = 1 THEN UpperDigits[(b[(k + 2) \div 3] \div 16) + 1]
        ELSE UpperDigits[(b[(k + 1) \div 3] % 16) + 1]]

\* what a caller can supply for a tag whose bytes are b
FormsOf(b) == {BytesVal(b), StrVal(Spaced(b), b), StrVal(BytesHex(b), b)}

\* strings hexstr_to_bytes rejects
Malformed == {StrVal(<<"1","2","G">>, <<>>), StrVal(<<"1","2","3">>, <<>>)}

AipInputs ==
    {NoneVal} \cup Malformed
    \cup UNION {FormsOf(b) : b \in BoundedSeq(AipBytes, MaxAipLen)}
    \cup {StrVal(<<"3","8","0","0">>, <<56, 0>>), StrVal(<<"3","0","0","0">>, <<48, 0>>),
          StrVal(<<"3"," ","8","0","0">>, <<56, 0>>)}

CvmInputs ==
    {NoneVal} \cup Malformed
    \cup UNION {FormsOf(b) : b \in BoundedSeq(CvmBytes, MaxCvmLen)}
    \cup {StrVal(<<"0","1","0","0","0","2","0","0">>, <<1, 0, 2, 0>>),
          StrVal(<<"0","2","0","0","0","1","0","0">>, <<2, 0, 1, 0>>)}

InitEval ==
    /\ \E a \in AipInputs, c \in CvmInputs : EvalEntry([t82 |-> a, t8E |-> c])
    /\ epc \in {"get", "x_get"}
    /\ hexstr = <<>>
    /\ data = <<>>
    /\ i = 0
    /\ tag = 0
    /\ tag_hex = <<>>
    /\ length = 0
    /\ tlvs = EmptyDict
    /\ pc = "idle"
    /\ exc = ""
    /\ fields = <<>>
    /\ mark = [tagAt |-> 0, lenAt |-> 0]
    /\ src = NoSource
    /\ other = IdleCall

\* lines 37-38: aip = card_tags.get('82'); cvm_list = card_tags.get('8E')
EvalGet ==
    /\ epc = "get"
    /\ aip' = card_tags.t82
    /\ cvm_list' = card_tags.t8E
    /\ epc' = "coerce_aip"
    /\ UNCHANGED <<card_tags, cv_supported, offline_pin_priority, methods, explanation, ret, eexc>>
    /\ UNCHANGED <<dvars, other>>

\* lines 41-42
EvalCoerceAip ==
    /\ epc = "coerce_aip"
    /\ IF CoerceRaises(aip)
       THEN /\ epc' = "raised"
            /\ eexc' = "ValueError"
            /\ aip' = aip
       ELSE /\ aip' = Coerce(aip)
            /\ epc' = "coerce_cvm"
            /\ eexc' = eexc
    /\ UNCHANGED <<card_tags, cvm_list, cv_supported, offline_pin_priority, methods, explanation, ret>>
    /\ UNCHANGED <<dvars, other>>

\* lines 43-44
EvalCoerceCvm ==
    /\ epc = "coerce_cvm"
    /\ IF CoerceRaises(cvm_list)
       THEN /\ epc' = "raised"
            /\ eexc' = "ValueError"
            /\ cvm_list' = cvm_list
       ELSE /\ cvm_list' = Coerce(cvm_list)
            /\ epc' = "cv"
            /\ eexc' = eexc
    /\ UNCHANGED <<card_tags, aip, cv_supported, offline_pin_priority, methods, explanation, ret>>
    /\ UNCHANGED <<dvars, other>>

\* line 46
EvalCvSupported ==
    /\ epc = "cv"
    /\ cv_supported' = IsCVSupported(aip)
    /\ epc' = "offline"
    /\ UNCHANGED <<card_tags, aip, cvm_list, offline_pin_priority, methods, explanation, ret, eexc>>
    /\ UNCHANGED <<dvars, other>>

\* line 47
EvalOfflinePin ==
    /\ epc = "offline"
    /\ methods' = GetCvmMethods(cvm_list)
    /\ offline_pin_priority' = IsOfflinePinHighestPriority(cvm_list)
    /\ epc' = "return"
    /\ UNCHANGED <<card_tags, aip, cvm_list, cv_supported, explanation, ret, eexc>>
    /\ UNCHANGED <<dvars, other>>

\* line 49
EvalReturn ==
    /\ epc = "return"
    /\ ret' = PyAnd(cv_supported, offline_pin_priority)
    /\ epc' = "done"
    /\ UNCHANGED <<card_tags, aip, cvm_list, cv_supported, offline_pin_priority, methods,
                   explanation, eexc>>
    /\ UNCHANGED <<dvars, other>>

---------------------------------------------------------------------------
(* The steps of explain_card_pin_requirement *)

\* lines 52-53
ExplGet ==
    /\ epc = "x_get"
    /\ aip' = card_tags.t82
    /\ cvm_list' = card_tags.t8E
    /\ epc' = "x_coerce_aip"
    /\ UNCHANGED <<card_tags, cv_supported, offline_pin_priority, methods, explanation, ret, eexc>>
    /\ UNCHANGED <<dvars, other>>

\* lines 54-55
ExplCoerceAip ==
    /\ epc = "x_coerce_aip"
    /\ IF CoerceRaises(aip)
       THEN /\ epc' = "x_raised"
            /\ eexc' = "ValueError"
            /\ aip' = aip
       ELSE /\ aip' = Coerce(aip)
            /\ epc' = "x_coerce_cvm"
            /\ eexc' = eexc
    /\ UNCHANGED <<card_tags, cvm_list, cv_supported, offline_pin_priority, methods, explanation, ret>>
    /\ UNCHANGED <<dvars, other>>

\* lines 56-57
ExplCoerceCvm ==
    /\ epc = "x_coerce_cvm"
    /\ IF CoerceRaises(cvm_list)
       THEN /\ epc' = "x_raised"
            /\ eexc' = "ValueError"
            /\ cvm_list' = cvm_list
       ELSE /\ cvm_list' = Coerce(cvm_list)
            /\ epc' = "x_cv"
            /\ eexc' = eexc
    /\ UNCHANGED <<card_tags, aip, cv_supported, offline_pin_priority, methods, explanation, ret>>
    /\ UNCHANGED <<dvars, other>>

\* line 59
ExplCvSupported ==
    /\ epc = "x_cv"
    /\ cv_supported' = IsCVSupported(aip)
    /\ epc' = "x_offline"
    /\ UNCHANGED <<card_tags, aip, cvm_list, offline_pin_priority, methods, explanation, ret, eexc>>
    /\ UNCHANGED <<dvars, other>>

\* line 60
ExplOfflinePin ==
    /\ epc = "x_offline"
    /\ methods' = GetCvmMethods(cvm_list)
    /\ offline_pin_priority' = IsOfflinePinHighestPriority(cvm_list)
    /\ epc' = "x_render"
    /\ UNCHANGED <<card_tags, aip, cvm_list, cv_supported, explanation, ret, eexc>>
    /\ UNCHANGED <<dvars, other>>

\* lines 62-68
ExplRender ==
    /\ epc = "x_render"
    /\ explanation' = Render(aip, cvm_list, cv_supported, offline_pin_priority)
    /\ epc' = "x_done"
    /\ UNCHANGED <<card_tags, aip, cvm_list, cv_supported, offline_pin_priority, methods,
                   ret, eexc>>
    /\ UNCHANGED <<dvars, other>>

NextEval ==
    \/ EvalGet
    \/ EvalCoerceAip
    \/ EvalCoerceCvm
    \/ EvalCvSupported
    \/ EvalOfflinePin
    \/ EvalReturn
    \/ ExplGet
    \/ ExplCoerceAip
    \/ ExplCoerceCvm
    \/ ExplCvSupported
    \/ ExplOfflinePin
    \/ ExplRender

SpecEval == InitEval /\ [][NextEval]_vars

---------------------------------------------------------------------------
(* Claims about the evaluator *)

\* the value a caller means by v: None, or the bytes v stands for
AsBytes(v) == IF v.kind = "none" THEN NoneVal ELSE BytesVal(v.of)

\* bit 0x10 of the first byte, by division
ExpectedCv(b) == Len(b) > 0 /\ (b[1] \div 16) % 2 = 1

\* the first byte of a list of at least one 2-byte entry is 0x01
ExpectedOffline(b) == Len(b) >= 2 /\ b[1] = 1

\* C8: the returned verdict is the conjunction of the two checks on the
\* values of tags 82 and 8E, taken as they are when bytes and hex-decoded,
\* spaces ignored, when strings: a tag given as a hex string and the same
\* tag given as the bytes it spells give the same verdict.  3800 with
\* 01000200 gives true, 3000 with 02000100 gives false.
C8_Verdict ==
    /\ epc \in {"cv", "offline", "return", "done"} =>
          /\ aip = AsBytes(card_tags.t82)
          /\ cvm_list = AsBytes(card_tags.t8E)
    /\ epc = "done" =>
          /\ ret = PyAnd(IsCVSupported(AsBytes(card_tags.t82)),
                         IsOfflinePinHighestPriority(AsBytes(card_tags.t8E)))
          /\ Truthy(ret) = (ExpectedCv(card_tags.t82.of) /\ ExpectedOffline(card_tags.t8E.of))
    /\ (epc = "done" /\ card_tags.t82.s = <<"3","8","0","0">>
                     /\ card_tags.t8E.s = <<"0","1","0","0","0","2","0","0">>)
          => ret = BoolRet(TRUE)
    /\ (epc = "done" /\ card_tags.t82.s = <<"3","0","0","0">>
                     /\ card_tags.t8E.s = <<"0","2","0","0","0","1","0","0">>)
          => ret = BoolRet(FALSE)

\* both tags were given as strings, one with spaces and one in lower case
\* digits, and the verdict is true
C8_Witness ==
    /\ epc = "done"
    /\ card_tags.t82 = StrVal(<<"3","8"," ","2","8">>, <<56, 40>>)
    /\ card_tags.t8E = StrVal(<<"0","1","0","2">>, <<1, 2>>)
    /\ ret = BoolRet(TRUE)

C11_OfflinePin ==
    epc \in {"return", "done"} =>
        /\ Truthy(offline_pin_priority) = (Len(methods) > 0 /\ methods[1] = 1)
        /\ Truthy(offline_pin_priority) =
              (cvm_list.kind = "bytes" /\ ExpectedOffline(cvm_list.b))
        /\ cvm_list = BytesVal(<<1, 0, 2, 0>>) => Truthy(offline_pin_priority)
        /\ cvm_list = BytesVal(<<2, 0, 1, 0>>) => ~Truthy(offline_pin_priority)
        /\ cvm_list = BytesVal(<<1>>) => ~Truthy(offline_pin_priority)

\* the list 02 00 01, with 0x01 as its second method only, was found not to
\* put offline PIN first
C11_Witness ==
    /\ epc = "return"
    /\ cvm_list = BytesVal(<<2, 0, 1>>)
    /\ methods = <<2, 1>>
    /\ offline_pin_priority = BoolRet(FALSE)

\* C12: get_cvm_methods gives the empty sequence for a missing list or one
\* shorter than 2 bytes, and otherwise the bytes at the even indices 0, 2, ...
\* in order, nothing skipped: 01 00 02 00 gives 01, 02.
C12_CvmMethods ==
    epc \in {"return", "done"} =>
        /\ (cvm_list.kind = "none" \/ Len(cvm_list.b) < 2) => methods = <<>>
        /\ (cvm_list.kind = "bytes" /\ Len(cvm_list.b) >= 2) =>
              /\ 2 * Len(methods) \in {Len(cvm_list.b), Len(cvm_list.b) + 1}
              /\ \A j \in 0..(Len(cvm_list.b) - 1) :
                    j % 2 = 0 => methods[(j \div 2) + 1] = cvm_list.b[j + 1]
        /\ cvm_list = BytesVal(<<1, 0, 2, 0>>) => methods = <<1, 2>>

\* the methods of the three-byte list 01 00 02 were taken
C12_Witness ==
    /\ epc = "return"
    /\ cvm_list = BytesVal(<<1, 0, 2>>)
    /\ methods = <<1, 2>>

HexAlphabet ==
    {"0","1","2","3","4","5","6","7","8","9",
     "A","B","C","D","E","F","a","b","c","d","e","f"}

\* a string that, spaces removed, has odd length or a character that is no
\* hex digit
IsMalformedHex(v) ==
    /\ v.kind = "str"
    /\ \/ Cardinality({k \in 1..Len(v.s) : v.s[k] # " "}) % 2 = 1
       \/ \E k \in 1..Len(v.s) : v.s[k] \notin HexAlphabet \cup {" "}

AbsentOrEmpty(v) == ~IsMalformedHex(v) /\ Len(v.of) = 0

\* tag 82 or tag 8E absent or empty, or tag 8E shorter than 2 bytes
Degenerate(t) ==
    \/ AbsentOrEmpty(t.t82)
    \/ ~IsMalformedHex(t.t8E) /\ Len(t.t8E.of) < 2

\* the call did not raise and its verdict, if made, is false
DegradesToFalse ==
    /\ epc \notin {"raised", "x_raised"}
    /\ epc = "done" => ~Truthy(ret)
    /\ epc = "x_done" => explanation[5].text = WillNot

\* C14 as stated: every mapping with tag 82 or 8E absent, empty or short
\* completes without an error, with the verdict false
C14_AsStated == Degenerate(card_tags) => DegradesToFalse

\* C14 amended: the same, for mappings in which the other value is no
\* malformed hex string
C14_Degrades ==
    (/\ Degenerate(card_tags)
     /\ ~IsMalformedHex(card_tags.t82)
     /\ ~IsMalformedHex(card_tags.t8E)) => DegradesToFalse

\* verification is supported and the CVM list is the single byte 01: the
\* call returned, and not a true verdict
C14_Witness ==
    /\ epc = "done"
    /\ card_tags.t82 = BytesVal(<<56, 0>>)
    /\ card_tags.t8E = BytesVal(<<1>>)
    /\ ~Truthy(ret)

\* the uppercase hex of bytes, two digits each
HexUpperOf(b) == [k \in 1..(2 * Len(b)) |-> Hex2(b[(k + 1) \div 2])[2 - (k % 2)]]

\* C15: a returned explanation has five lines in this order: the AIP in
\* uppercase hex or Missing, the CVM list in uppercase hex or Missing, Yes or
\* No for verification supported, Yes or No for offline PIN first, and a
\* result that says will exactly when will_card_always_request_pin is true on
\* the same mapping, will NOT otherwise.
C15_Explanation ==
    epc = "x_done" =>
        LET a == card_tags.t82.of
            c == card_tags.t8E.of
            verdict == PyAnd(IsCVSupported(AsBytes(card_tags.t82)),
                             IsOfflinePinHighestPriority(AsBytes(card_tags.t8E)))
        IN
        /\ Len(explanation) = 5
        /\ explanation[1].head = "AIP (tag 82): "
        /\ explanation[1].text = IF Len(a) = 0 THEN Missing ELSE HexUpperOf(a)
        /\ explanation[2].head = "CVM List (tag 8E): "
        /\ explanation[2].text = IF Len(c) = 0 THEN Missing ELSE HexUpperOf(c)
        /\ explanation[3].head = "Cardholder verification supported in AIP: "
        /\ explanation[3].text = IF ExpectedCv(a) THEN Yes ELSE No
        /\ explanation[4].head = "Offline PIN for CA is highest priority in CVM list: "
        /\ explanation[4].text = IF ExpectedOffline(c) THEN Yes ELSE No
        /\ explanation[5].head = "Result: Card "
        /\ explanation[5].text = IF Truthy(verdict) THEN Will ELSE WillNot
        /\ explanation[5].text = IF ExpectedCv(a) /\ ExpectedOffline(c) THEN Will ELSE WillNot

\* an explanation of 38 00 given in lower case digits and 01 00 says will
C15_Witness ==
    /\ epc = "x_done"
    /\ card_tags.t82.kind = "str"
    /\ explanation[1].text = <<"3", "8", "0", "0">>
    /\ explanation[2].text = <<"0", "1", "0", "0">>
    /\ explanation[4].text = Yes
    /\ explanation[5].text = Will

\* C16: what is_offline_pin_highest_priority and
\* will_card_always_request_pin return is exactly True or False, also for a
\* CVM list that is missing, empty or shorter than 2 bytes.
C16_ExactBool ==
    /\ epc \in {"return", "done"} => offline_pin_priority.kind = "bool"
    /\ epc = "done" => ret.kind = "bool"

\* the case of C16: verification is supported, the CVM list is the single
\* byte 01, and the empty list was returned
C16_ListReturned ==
    /\ epc = "done"
    /\ card_tags.t82 = BytesVal(<<56, 0>>)
    /\ card_tags.t8E = BytesVal(<<1>>)
    /\ ret = ListRet(<<>>)

---------------------------------------------------------------------------
(* Concurrent calls: two calls of parse_tlv and one call of
   will_card_always_request_pin or explain_card_pin_requirement, their
   steps interleaved in any order.  Every name the functions assign is a
   local of the call (lines 71-97, 37-49, 52-68): no function declares a
   global, reads a module-level variable or has a default argument, and
   the names assigned under __main__ (lines 100-132) are not those
   locals.  So a step of one call leaves the other calls' variables
   alone. *)

ConcHex ==
    { <<"8","2","0","2","3","0","0","0">>,
      <<"8","E","0","2","0","1","0","0">>,
      <<"8","2","0","1","0","1","8","2","0","1","0","0">>,
      <<"9","F","0","2","0","1","F","F">>,
      <<"8","2","0","5","0","0","0","1">>,
      <<"8","2">>,
      <<"1","2","G">> }

ConcTags ==
    { [t82 |-> StrVal(<<"3","8","0","0">>, <<56, 0>>), t8E |-> BytesVal(<<1, 0, 2, 0>>)],
      [t82 |-> BytesVal(<<48, 0>>), t8E |-> BytesVal(<<1>>)],
      [t82 |-> NoneVal, t8E |-> StrVal(<<"0","2","0","0">>, <<2, 0>>)],
      [t82 |-> BytesVal(<<56, 0>>), t8E |-> StrVal(<<"1","2","G">>, <<>>)] }

InitConc ==
    /\ \E h \in ConcHex : DecodeEntry(h)
    /\ src = NoSource
    /\ \E t \in ConcTags : EvalEntry(t)
    /\ epc \in {"get", "x_get"}
    /\ \E h \in ConcHex : other = CallEntry(h)

\* the second call's step made on the first call's dict, as if tlvs were one
\* object shared by the calls
OtherStep_shared ==
    /\ other.pc \in {"start", "loop", "len", "val"}
    /\ other' = DecodeStep([other EXCEPT !.tlvs = tlvs])
    /\ tlvs' = other'.tlvs
    /\ UNCHANGED <<hexstr, data, i, tag, tag_hex, length, pc, exc, fields, mark, src>>
    /\ UNCHANGED evars

\* lines 75-97: a step of the second call of parse_tlv
OtherStep ==
    /\ other.pc \in {"start", "loop", "len", "val"}
    /\ other' = DecodeStep(other)
    /\ UNCHANGED <<dvars, evars>>

NextConc == Next \/ NextEval \/ OtherStep

SpecConc == InitConc /\ [][NextConc]_vars

\* the verdict of will_card_always_request_pin run alone on t
VerdictAlone(t) ==
    PyAnd(IsCVSupported(Coerce(t.t82)), IsOfflinePinHighestPriority(Coerce(t.t8E)))

\* the lines of explain_card_pin_requirement run alone on t
ExplanationAlone(t) ==
    Render(Coerce(t.t82), Coerce(t.t8E), IsCVSupported(Coerce(t.t82)),
           IsOfflinePinHighestPriority(Coerce(t.t8E)))

\* C18: under every interleaving of two calls of parse_tlv and a call of the
\* evaluator, each call that ended gave the result it gives when run alone
\* on its input, which is a function of the input; no step changes an
\* argument of any call, and a step of one call changes nothing of the
\* others.
C18_NoInterference ==
    /\ [](pc \in {"done", "raised"} =>
            Outcome([pc |-> pc, exc |-> exc, tlvs |-> tlvs])
               = Outcome(RunAlone(CallEntry(hexstr))))
    /\ [](other.pc \in {"done", "raised"} =>
            Outcome(other) = Outcome(RunAlone(CallEntry(other.hexstr))))
    /\ [](epc \in {"raised", "x_raised"} =>
            CoerceRaises(card_tags.t82) \/ CoerceRaises(card_tags.t8E))
    /\ [](epc = "done" =>
            /\ ~CoerceRaises(card_tags.t82) /\ ~CoerceRaises(card_tags.t8E)
            /\ ret = VerdictAlone(card_tags))
    /\ [](epc = "x_done" =>
            /\ ~CoerceRaises(card_tags.t82) /\ ~CoerceRaises(card_tags.t8E)
            /\ explanation = ExplanationAlone(card_tags))
    /\ [][/\ hexstr' = hexstr
          /\ card_tags' = card_tags
          /\ other'.hexstr = other.hexstr
          /\ dvars' # dvars => (evars' = evars /\ other' = other)
          /\ evars' # evars => (dvars' = dvars /\ other' = other)
          /\ other' # other => (dvars' = dvars /\ evars' = evars)]_vars

\* all three calls ended after their steps were interleaved: the two
\* decodes of the same buffer with a repeated tag, and a verdict
C18_Witness ==
    /\ pc = "done"
    /\ other.pc = "done"
    /\ epc = "done"
    /\ hexstr = <<"8","2","0","1","0","1","8","2","0","1","0","0">>
    /\ other.hexstr = hexstr
    /\ other.tlvs = tlvs
    /\ Len(fields) = 2
    /\ ret = BoolRet(TRUE)

====
